---- MODULE Spec2Model ----
(***************************************************************************)
(* State-machine model of the AI Bug Report Generator:                     *)
(*   src/App.tsx                   the App component (two revisions in the *)
(*                                 file: lines 20-412 with the Jira bridge,*)
(*                                 lines 433-758 with handleClearAll)      *)
(*   src/services/geminiService.ts generateBugReport                       *)
(* React state is the model's state; every event handler, promise          *)
(* continuation and timer callback is one atomic action (one macrotask and *)
(* the microtasks it triggers, followed by one render).                    *)
(***************************************************************************)
EXTENDS Integers, Sequences, FiniteSets, TLC

VARIABLES
    variant,           \* which revision of App.tsx runs: 1 (l.20-412) or 2 (l.433-758)
    now,               \* the value Date.now() returns
    bugInputs,         \* useState<BugReportInput[]>
    screenshots,       \* useState<{[key: number]: Screenshot | null}>
    companyLogo,       \* useState<Screenshot | null>
    readers,           \* the FileReaders whose readAsDataURL has not finished
    generatedReports,  \* useState<GeneratedReport[]>
    isLoading,         \* useState<boolean>
    error,             \* useState<string | null>
    jiraConfig,        \* the fields of jiraConfig that are non-empty
    jiraIssueStatus,   \* useState<{[key: number]: {status, ...}}>
    jiraTimers,        \* originalIds of the setTimeout callbacks not yet run
    cur,               \* closure of the latest handleSubmit: its inputs, and its
                       \* calls as its Promise.all saw them until it settled
    promiseAll,        \* state of the Promise.all of each submission so far
    stale,             \* calls not settled yet whose Promise.all has settled
    issued,            \* how often each identifier was handed out (at most 2 counted)
    cleared            \* handleClearAll has run and no submission has started since

vars == <<variant, now, bugInputs, screenshots, companyLogo, readers,
          generatedReports, isLoading, error, jiraConfig, jiraIssueStatus,
          jiraTimers, cur, promiseAll, stale, issued, cleared>>

\* ------------------------------------------------------------------ bounds
MaxTime == 2
MaxEntries == 2
MaxSubmits == 2
MaxTimers == 2
MaxJiraEntries == 1
MaxReaders == 1

\* --------------------------------------------------------------- constants
Null == "<null>"
Titles == {"", "a"}

InvalidFormatMsg == "The AI returned an invalid response format."
FallbackMsgV1 == "An error occurred while generating the report."
GenericMsgV2 == "An error occurred while generating the report. Please check your inputs and try again."
JiraSimulatedMsg == "Creating Jira issues directly from the browser is insecure"
UpstreamMessages == {"", "429 quota exceeded"}

RequiredFields == {"suggestedTitle", "summary", "stepsToReproduce",
                   "expectedBehavior", "actualBehavior", "impact", "environment"}
EnvRequired == {"browser", "os", "device"}
JiraFields == {"url", "email", "apiToken", "projectKey"}

\* -------------------------------------------------- the model's responses
\* The text of a response: whether JSON.parse accepts it and, if so, the keys
\* of the object and of its environment object.
FullText == [wellFormed |-> TRUE, fields |-> RequiredFields, env |-> EnvRequired]
PartialText == [wellFormed |-> TRUE, fields |-> RequiredFields \ {"impact"},
                env |-> EnvRequired \ {"os"}]
MalformedText == [wellFormed |-> FALSE, fields |-> {}, env |-> {}]
ResponseTexts == {FullText, PartialText, MalformedText}

\* What ai.models.generateContent settles with.
Responses ==
    {[kind |-> "text", text |-> t, message |-> ""] : t \in ResponseTexts}
    \cup {[kind |-> "error", text |-> MalformedText, message |-> m] : m \in UpstreamMessages}

\* ------------------------------------------------------------------ files
ScreenshotLimit == 4 * 1024 * 1024
LogoLimit == 1 * 1024 * 1024
FileTooBigMsg == "File size exceeds 4MB. Please upload a smaller image."
LogoTooBigMsg == "Logo size exceeds 1MB. Please upload a smaller image."
FileReadFailedMsg == "Failed to read the file."
LogoReadFailedMsg == "Failed to read the logo file."

\* e.target.files[0]: the size in bytes and the type of the file picked.
ScreenshotFiles == [size : {ScreenshotLimit, ScreenshotLimit + 1}, type : {"image/png"}]
LogoFiles == [size : {LogoLimit, LogoLimit + 1}, type : {"image/png"}]

\* No attachment: undefined or null.
NoFile == [present |-> FALSE, mimeType |-> "", size |-> 0]

\* The Screenshot reader.onloadend builds: the bytes of the file (base64 and
\* dataUrl, here the number of them) and its type.
Screenshot(file) == [present |-> TRUE, mimeType |-> file.type, size |-> file.size]

\* What a FileReader will store into: the screenshot of an entry, or the logo.
LogoTarget == 0

\* ----------------------------------------------------------------- prompt
NotProvided == "Not provided"
Hints == {"", "Chrome"}

\* Mutant of EnvironmentHint: the values are used only when all three are given.
EnvironmentHintAllOrNothing(bugInput) ==
    IF bugInput.browser # "" /\ bugInput.os # "" /\ bugInput.device # ""
    THEN [instruction |-> "use provided, infer missing",
          browser |-> bugInput.browser, os |-> bugInput.os, device |-> bugInput.device]
    ELSE [instruction |-> "infer all", browser |-> "", os |-> "", device |-> ""]

\* environmentHint of buildPrompt: which of the two instructions it is, and
\* the three values interpolated into the first one.
EnvironmentHint(bugInput) ==
    IF bugInput.browser # "" \/ bugInput.os # "" \/ bugInput.device # ""
    THEN [instruction |-> "use provided, infer missing",
          browser |-> IF bugInput.browser # "" THEN bugInput.browser ELSE NotProvided,
          os |-> IF bugInput.os # "" THEN bugInput.os ELSE NotProvided,
          device |-> IF bugInput.device # "" THEN bugInput.device ELSE NotProvided]
    ELSE [instruction |-> "infer all", browser |-> "", os |-> "", device |-> ""]

\* The text buildPrompt returns: the interpolated title, the environment hint
\* and whether the image-analysis sentence is in it.
buildPrompt(bugInput, hasImage) ==
    [title |-> bugInput.title,
     environmentHint |-> EnvironmentHint(bugInput),
     imageNote |-> hasImage]

NoPrompt == [title |-> "", environmentHint |-> [instruction |-> "", browser |-> "",
                                                os |-> "", device |-> ""],
             imageNote |-> FALSE]
NoContents == [form |-> "none", parts |-> <<>>]

\* Mutant of Contents: the text part comes before the image part.
ContentsTextFirst(bugInput, screenshot) ==
    LET promptText == buildPrompt(bugInput, screenshot.present)
    IN  IF screenshot.present
        THEN [form |-> "parts",
              parts |-> <<[kind |-> "text", mimeType |-> "", data |-> 0,
                           text |-> promptText],
                          [kind |-> "inlineData", mimeType |-> screenshot.mimeType,
                           data |-> screenshot.size, text |-> NoPrompt]>>]
        ELSE [form |-> "string",
              parts |-> <<[kind |-> "text", mimeType |-> "", data |-> 0,
                           text |-> promptText]>>]

\* contents of generateBugReport: { parts: [inlineData, text] } with a
\* screenshot, the prompt string alone without.
Contents(bugInput, screenshot) ==
    LET promptText == buildPrompt(bugInput, screenshot.present)
    IN  IF screenshot.present
        THEN [form |-> "parts",
              parts |-> <<[kind |-> "inlineData", mimeType |-> screenshot.mimeType,
                           data |-> screenshot.size, text |-> NoPrompt],
                          [kind |-> "text", mimeType |-> "", data |-> 0,
                           text |-> promptText]>>]
        ELSE [form |-> "string",
              parts |-> <<[kind |-> "text", mimeType |-> "", data |-> 0,
                           text |-> promptText]>>]

EmptyValue == [fields |-> {}, env |-> {}]
NoResponse == [kind |-> "none", text |-> MalformedText, message |-> ""]

\* One generateBugReport call in flight: its promise's state, the value or the
\* error message it settled with, whether a screenshot went with the request,
\* what generateContent answered, how many calls had settled before it, how
\* many generateContent requests it has made and the contents of the request.
PendingCall == [state |-> "pending", value |-> EmptyValue, message |-> "",
                hasImage |-> FALSE, resp |-> NoResponse, order |-> 0,
                requests |-> 0, contents |-> NoContents]

\* generateBugReport(bugData, screenshot) up to its await: one generateContent
\* request with the contents built from the entry and its screenshot.
StartCall(bugInput, screenshot) ==
    [PendingCall EXCEPT !.hasImage = screenshot.present,
                        !.requests = 1,
                        !.contents = Contents(bugInput, screenshot)]

\* JSON.parse(response.text): throws on text that is not JSON.
JSONParse(text) ==
    IF text.wellFormed
    THEN [ok |-> TRUE, value |-> [fields |-> text.fields, env |-> text.env]]
    ELSE [ok |-> FALSE, value |-> EmptyValue]

\* Mutant of generateBugReport: a parse failure is swallowed and an empty
\* report returned.
generateBugReportLenient(resp) ==
    IF resp.kind = "error"
    THEN [state |-> "rejected", value |-> EmptyValue, message |-> resp.message]
    ELSE [state |-> "fulfilled", value |-> JSONParse(resp.text).value, message |-> ""]

\* generateBugReport from the point where generateContent settles.
generateBugReport(resp) ==
    IF resp.kind = "error"
    THEN [state |-> "rejected", value |-> EmptyValue, message |-> resp.message]
    ELSE LET parsed == JSONParse(resp.text)
         IN  IF parsed.ok
             THEN [state |-> "fulfilled", value |-> parsed.value, message |-> ""]
             ELSE [state |-> "rejected", value |-> EmptyValue, message |-> InvalidFormatMsg]

\* Mutant of Settle: a failed call asks the model once more.
SettleWithRetry(call, resp, k) ==
    LET s == generateBugReport(resp)
    IN  IF s.state = "rejected" /\ call.requests < 2
        THEN [call EXCEPT !.requests = @ + 1, !.resp = resp]
        ELSE [call EXCEPT !.state = s.state, !.value = s.value,
                          !.message = s.message, !.resp = resp, !.order = k]

\* The call once generateContent has answered resp, as the k-th to settle: its
\* promise settles as generateBugReport says, no other request is made.
Settle(call, resp, k) ==
    LET s == generateBugReport(resp)
    IN  [call EXCEPT !.state = s.state, !.value = s.value,
                     !.message = s.message, !.resp = resp, !.order = k]

\* Mutant of AttachId: the identifier of the entry is not carried over.
AttachIdLost(value, id) ==
    [originalId |-> 0, fields |-> value.fields, env |-> value.env]

\* .then(report => ({ ...report, originalId: id }))
AttachId(value, id) ==
    [originalId |-> id, fields |-> value.fields, env |-> value.env]

\* --------------------------------------------------------------- helpers
Ids(entries) == {entries[i].id : i \in 1..Len(entries)}

RECURSIVE FilterOut(_, _)
\* prev.filter(bug => bug.id !== id)
FilterOut(entries, id) ==
    IF entries = <<>> THEN <<>>
    ELSE IF Head(entries).id = id THEN FilterOut(Tail(entries), id)
    ELSE <<Head(entries)>> \o FilterOut(Tail(entries), id)

NewEntry(id) == [id |-> id, title |-> "", browser |-> "", os |-> "", device |-> ""]

\* isFormValid (revision 2) / the required attribute of the fields (revision 1)
isFormValid == \A i \in 1..Len(bugInputs) : bugInputs[i].title # ""

IdSpace == 1..MaxTime

NoBatch == [inputs |-> <<>>, calls |-> <<>>]
NoStatus == [status |-> "absent", message |-> ""]

\* Counts one more creation with identifier id (the count saturates at 2).
Issue(id) == [issued EXCEPT ![id] = IF @ < 2 THEN @ + 1 ELSE @]

Init ==
    /\ variant \in {1, 2}
    /\ now = 1
    /\ bugInputs = <<NewEntry(1)>>
    /\ screenshots = [id \in IdSpace |-> NoFile]
    /\ companyLogo = NoFile
    /\ readers = {}
    /\ cleared = FALSE
    /\ generatedReports = <<>>
    /\ isLoading = FALSE
    /\ error = Null
    /\ jiraConfig = {}
    /\ jiraIssueStatus = [id \in IdSpace |-> NoStatus]
    /\ jiraTimers = <<>>
    /\ cur = NoBatch
    /\ promiseAll = <<>>
    /\ stale = {}
    /\ issued = [id \in IdSpace |-> IF id = 1 THEN 1 ELSE 0]

\* catch (err): the message handleSubmit publishes.
SubmitErrorMessage(message) ==
    IF variant = 1
    THEN (IF message # "" THEN message ELSE FallbackMsgV1)
    ELSE GenericMsgV2

\* Mutant of PromiseAllReaction: a rejected input does not reject the whole.
PromiseAllIgnoringFailure(join, s, restFulfilled) ==
    IF join # "pending" THEN "none"
    ELSE IF restFulfilled THEN "fulfilled"
    ELSE "none"

\* Mutant of PromiseAllReaction: the first fulfilled input fulfils the whole.
PromiseAllFirstWins(join, s, restFulfilled) ==
    IF join # "pending" THEN "none"
    ELSE IF s.state = "rejected" THEN "rejected"
    ELSE "fulfilled"

\* Mutant of PromiseAllValues: the values in the order the calls completed.
PromiseAllValuesByArrival(inputs, calls) ==
    [j \in 1..Len(inputs) |->
        LET k == IF \E x \in 1..Len(calls) : calls[x].order = j
                 THEN CHOOSE x \in 1..Len(calls) : calls[x].order = j
                 ELSE j
        IN  AttachId(calls[k].value, inputs[k].id)]

\* Mutant of Continue: the loading flag is dropped without awaiting the join.
ContinueWithoutAwait(reaction, reports, message) ==
    /\ generatedReports' = IF reaction = "fulfilled" THEN reports ELSE generatedReports
    /\ error' = IF reaction = "rejected" THEN SubmitErrorMessage(message) ELSE error
    /\ isLoading' = FALSE

\* Mutant of Continue: the loading flag is dropped on success only (no finally).
ContinueNoFinally(reaction, reports, message) ==
    /\ generatedReports' = IF reaction = "fulfilled" THEN reports ELSE generatedReports
    /\ error' = IF reaction = "rejected" THEN SubmitErrorMessage(message) ELSE error
    /\ isLoading' = IF reaction = "fulfilled" THEN FALSE ELSE isLoading

\* Mutant of ClearedStatus: handleSubmit leaves the tracker statuses alone.
KeptStatus == jiraIssueStatus

\* Mutant of PromiseAllReaction: a rejection is acted on even after the
\* Promise.all has settled.
PromiseAllRejectsAgain(join, s, restFulfilled) ==
    IF s.state = "rejected" THEN "rejected"
    ELSE IF join # "pending" THEN "none"
    ELSE IF restFulfilled THEN "fulfilled"
    ELSE "none"

\* Mutant of PromiseAllValues: the identifiers are read from the form as it is
\* when the calls have completed.
PromiseAllValuesLive(inputs, calls) ==
    [j \in 1..Len(bugInputs) |->
        AttachId(calls[IF j <= Len(calls) THEN j ELSE Len(calls)].value, bugInputs[j].id)]

\* ------------------------------------------------------------ Promise.all
\* What Promise.all does when one of its input promises settles with s:
\* nothing once it has settled itself, reject on the first rejection, fulfil
\* when the last input is fulfilled (restFulfilled: all the others are).
PromiseAllReaction(join, s, restFulfilled) ==
    IF join # "pending" THEN "none"
    ELSE IF s.state = "rejected" THEN "rejected"
    ELSE IF restFulfilled THEN "fulfilled"
    ELSE "none"

\* The array Promise.all fulfils with: the values in the order of the inputs.
PromiseAllValues(inputs, calls) ==
    [j \in 1..Len(inputs) |-> AttachId(calls[j].value, inputs[j].id)]

\* The rest of handleSubmit after `await Promise.all(reportPromises)`.
Continue(reaction, reports, message) ==
    /\ generatedReports' = IF reaction = "fulfilled" THEN reports ELSE generatedReports
    /\ error' = IF reaction = "rejected" THEN SubmitErrorMessage(message) ELSE error
    /\ isLoading' = IF reaction = "none" THEN isLoading ELSE FALSE

\* ---------------------------------------------------------------- actions
\* Time passes: Date.now() never decreases.
Tick ==
    /\ now < MaxTime
    /\ now' = now + 1
    /\ UNCHANGED <<variant, bugInputs, screenshots, generatedReports, isLoading,
                   error, jiraConfig, jiraIssueStatus, jiraTimers, cur,
                   promiseAll, stale, issued,
                   companyLogo, readers, cleared>>

addBugForm ==
    /\ variant = 1 => ~isLoading          \* disabled={isLoading} in revision 1
    /\ Len(bugInputs) < MaxEntries
    /\ bugInputs' = Append(bugInputs, NewEntry(now))
    /\ issued' = Issue(now)
    /\ UNCHANGED <<variant, now, screenshots, generatedReports, isLoading, error,
                   jiraConfig, jiraIssueStatus, jiraTimers, cur, promiseAll, stale,
                   companyLogo, readers, cleared>>

\* Mutant of removeBugForm: the screenshot of the removed entry is kept.
removeBugFormKeepsScreenshot(id) ==
    /\ Len(bugInputs) > 1
    /\ id \in Ids(bugInputs)
    /\ bugInputs' = FilterOut(bugInputs, id)
    /\ UNCHANGED <<variant, now, screenshots, generatedReports, isLoading, error,
                   jiraConfig, jiraIssueStatus, jiraTimers, cur, promiseAll,
                   stale, issued, companyLogo, readers, cleared>>

removeBugForm(id) ==
    /\ Len(bugInputs) > 1                 \* isRemovable
    /\ id \in Ids(bugInputs)
    /\ bugInputs' = FilterOut(bugInputs, id)
    /\ screenshots' = [screenshots EXCEPT ![id] = NoFile]
    /\ UNCHANGED <<variant, now, generatedReports, isLoading, error, jiraConfig,
                   jiraIssueStatus, jiraTimers, cur, promiseAll, stale, issued,
                   companyLogo, readers, cleared>>

handleInputChange(id, value) ==
    /\ id \in Ids(bugInputs)
    /\ bugInputs' = [i \in 1..Len(bugInputs) |->
                        IF bugInputs[i].id = id
                        THEN [bugInputs[i] EXCEPT !.title = value]
                        ELSE bugInputs[i]]
    /\ UNCHANGED <<variant, now, screenshots, generatedReports, isLoading, error,
                   jiraConfig, jiraIssueStatus, jiraTimers, cur, promiseAll,
                   stale, issued,
                   companyLogo, readers, cleared>>

handleClearAll ==
    /\ variant = 2
    /\ bugInputs' = <<NewEntry(now)>>
    /\ issued' = Issue(now)
    /\ companyLogo' = NoFile
    /\ screenshots' = [id \in IdSpace |-> NoFile]
    /\ generatedReports' = <<>>
    /\ error' = Null
    /\ cleared' = TRUE
    /\ UNCHANGED <<variant, now, isLoading, jiraConfig, jiraIssueStatus,
                   jiraTimers, cur, promiseAll, stale, readers>>

\* The close button of the error banner (revision 1).
dismissError ==
    /\ variant = 1
    /\ error # Null
    /\ error' = Null
    /\ UNCHANGED <<variant, now, bugInputs, screenshots, generatedReports,
                   isLoading, jiraConfig, jiraIssueStatus, jiraTimers, cur,
                   promiseAll, stale, issued,
                   companyLogo, readers, cleared>>

\* setJiraIssueStatus({}) of handleSubmit
ClearedStatus == [id \in IdSpace |-> NoStatus]

\* The calls of the latest submission its Promise.all is still waiting for.
Outstanding ==
    IF promiseAll # <<>> /\ promiseAll[Len(promiseAll)] = "pending"
    THEN {i \in 1..Len(cur.calls) : cur.calls[i].state = "pending"}
    ELSE {}

\* Mutant of submitDisabled: the button stays enabled while loading.
submitEnabledWhileLoading == variant = 2 /\ ~isFormValid

\* disabled of the submit button: {isLoading} in revision 1,
\* {isLoading || !isFormValid} in revision 2.
submitDisabled == isLoading \/ (variant = 2 /\ ~isFormValid)

\* Mutant of handleSubmit: the reports of the previous submission stay.
handleSubmitKeepsReports ==
    /\ ~submitDisabled
    /\ isFormValid
    /\ Len(promiseAll) < MaxSubmits
    /\ error' = Null
    /\ jiraIssueStatus' = IF variant = 1 THEN ClearedStatus ELSE jiraIssueStatus
    /\ cur' = [inputs |-> bugInputs,
               calls |-> [i \in 1..Len(bugInputs) |->
                            StartCall(bugInputs[i], screenshots[bugInputs[i].id])]]
    /\ cleared' = FALSE
    /\ promiseAll' = Append(promiseAll, IF bugInputs = <<>> THEN "fulfilled" ELSE "pending")
    /\ isLoading' = (bugInputs # <<>>)
    /\ UNCHANGED <<variant, now, bugInputs, screenshots, jiraConfig, jiraTimers,
                   stale, issued, companyLogo, readers, generatedReports>>

handleSubmit ==
    /\ ~submitDisabled
    /\ isFormValid                        \* the required fields of the form
    /\ Len(promiseAll) < MaxSubmits
    /\ error' = Null
    /\ jiraIssueStatus' = IF variant = 1 THEN ClearedStatus ELSE jiraIssueStatus
    /\ cur' = [inputs |-> bugInputs,
               calls |-> [i \in 1..Len(bugInputs) |->
                            StartCall(bugInputs[i], screenshots[bugInputs[i].id])]]
    /\ cleared' = FALSE
    /\ generatedReports' = <<>>
    \* Promise.all of no promise is fulfilled at once, with no report
    /\ promiseAll' = Append(promiseAll, IF bugInputs = <<>> THEN "fulfilled" ELSE "pending")
    /\ isLoading' = (bugInputs # <<>>)
    /\ UNCHANGED <<variant, now, bugInputs, screenshots, jiraConfig, jiraTimers,
                   stale, issued, companyLogo, readers>>

\* generateContent of call i of the latest submission settles with resp.
ResponseArrives(i, resp) ==
    /\ i \in Outstanding
    /\ LET s == generateBugReport(resp)
           settled == Cardinality({j \in 1..Len(cur.calls) : cur.calls[j].state # "pending"})
           calls == [cur.calls EXCEPT ![i] = Settle(@, resp, settled + 1)]
           n == Len(promiseAll)
           rest == \A j \in (1..Len(calls)) \ {i} : calls[j].state = "fulfilled"
           reaction == PromiseAllReaction(promiseAll[n], s, rest)
       IN  /\ cur' = [cur EXCEPT !.calls = calls]
           /\ promiseAll' = IF reaction = "none" THEN promiseAll
                            ELSE [promiseAll EXCEPT ![n] = reaction]
           /\ Continue(reaction, PromiseAllValues(cur.inputs, calls), s.message)
           \* the calls still in flight stay in flight, nobody awaits them
           /\ stale' = IF reaction = "none" THEN stale
                        ELSE stale \cup {[batch |-> n, index |-> j] :
                                            j \in Outstanding \ {i}}
    /\ UNCHANGED <<variant, now, bugInputs, screenshots, jiraConfig,
                   jiraIssueStatus, jiraTimers, issued,
                   companyLogo, readers, cleared>>

\* generateContent of a call settles after the Promise.all of its submission.
LateResponseArrives(c, resp) ==
    /\ c \in stale
    /\ LET s == generateBugReport(resp)
           reaction == PromiseAllReaction(promiseAll[c.batch], s, FALSE)
       IN  /\ promiseAll' = IF reaction = "none" THEN promiseAll
                            ELSE [promiseAll EXCEPT ![c.batch] = reaction]
           /\ Continue(reaction, <<>>, s.message)
    /\ stale' = stale \ {c}
    /\ UNCHANGED <<variant, now, bugInputs, screenshots, jiraConfig,
                   jiraIssueStatus, jiraTimers, cur, issued,
                   companyLogo, readers, cleared>>

Next ==
    \/ Tick
    \/ addBugForm
    \/ \E id \in IdSpace : removeBugForm(id)
    \/ \E id \in IdSpace, value \in Titles : handleInputChange(id, value)
    \/ handleClearAll
    \/ dismissError
    \/ handleSubmit
    \/ \E i \in 1..MaxEntries, resp \in Responses : ResponseArrives(i, resp)
    \/ \E c \in stale, resp \in Responses : LateResponseArrives(c, resp)

Spec == Init /\ [][Next]_vars

\* ------------------------------------------------------------ attachments
\* Mutant of handleFileChange: a file of exactly the limit is rejected too.
handleFileChangeInclusive(id, file) ==
    /\ id \in Ids(bugInputs)
    /\ IF file.size >= ScreenshotLimit
       THEN /\ error' = FileTooBigMsg
            /\ UNCHANGED readers
       ELSE /\ Cardinality(readers) < MaxReaders
            /\ error' = Null
            /\ readers' = readers \cup {[target |-> id, file |-> file]}
    /\ UNCHANGED <<variant, now, bugInputs, screenshots, companyLogo,
                   generatedReports, isLoading, jiraConfig, jiraIssueStatus,
                   jiraTimers, cur, promiseAll, stale, issued, cleared>>

\* The screenshot input of entry id changes to file.
handleFileChange(id, file) ==
    /\ id \in Ids(bugInputs)
    /\ IF file.size > ScreenshotLimit
       THEN /\ error' = FileTooBigMsg
            /\ UNCHANGED readers
       ELSE /\ Cardinality(readers) < MaxReaders
            /\ error' = Null
            \* reader.readAsDataURL(file)
            /\ readers' = readers \cup {[target |-> id, file |-> file]}
    /\ UNCHANGED <<variant, now, bugInputs, screenshots, companyLogo,
                   generatedReports, isLoading, jiraConfig, jiraIssueStatus,
                   jiraTimers, cur, promiseAll, stale, issued, cleared>>

\* Mutant of handleLogoChange: the read is started before the size is checked.
handleLogoChangeReadFirst(file) ==
    /\ Cardinality(readers) < MaxReaders
    /\ readers' = readers \cup {[target |-> LogoTarget, file |-> file]}
    /\ error' = IF file.size > LogoLimit THEN LogoTooBigMsg ELSE Null
    /\ UNCHANGED <<variant, now, bugInputs, screenshots, companyLogo,
                   generatedReports, isLoading, jiraConfig, jiraIssueStatus,
                   jiraTimers, cur, promiseAll, stale, issued, cleared>>

\* The logo input changes to file.
handleLogoChange(file) ==
    /\ IF file.size > LogoLimit
       THEN /\ error' = LogoTooBigMsg
            /\ UNCHANGED readers
       ELSE /\ Cardinality(readers) < MaxReaders
            /\ error' = Null
            /\ readers' = readers \cup {[target |-> LogoTarget, file |-> file]}
    /\ UNCHANGED <<variant, now, bugInputs, screenshots, companyLogo,
                   generatedReports, isLoading, jiraConfig, jiraIssueStatus,
                   jiraTimers, cur, promiseAll, stale, issued, cleared>>

\* reader.onloadend after a successful read: the attachment is stored under
\* the identifier the handler was called with, or as the logo.
FileReaderLoadEnd(r) ==
    /\ r \in readers
    /\ readers' = readers \ {r}
    /\ IF r.target = LogoTarget
       THEN /\ companyLogo' = Screenshot(r.file)
            /\ UNCHANGED screenshots
       ELSE /\ screenshots' = [screenshots EXCEPT ![r.target] = Screenshot(r.file)]
            /\ UNCHANGED companyLogo
    /\ UNCHANGED <<variant, now, bugInputs, generatedReports, isLoading, error,
                   jiraConfig, jiraIssueStatus, jiraTimers, cur, promiseAll,
                   stale, issued, cleared>>

\* reader.onerror; the onloadend that follows throws on the null result and
\* stores nothing.
FileReaderError(r) ==
    /\ r \in readers
    /\ readers' = readers \ {r}
    /\ error' = IF r.target = LogoTarget THEN LogoReadFailedMsg ELSE FileReadFailedMsg
    /\ UNCHANGED <<variant, now, bugInputs, screenshots, companyLogo,
                   generatedReports, isLoading, jiraConfig, jiraIssueStatus,
                   jiraTimers, cur, promiseAll, stale, issued, cleared>>

\* The REMOVE button next to the screenshot of entry id.
removeScreenshot(id) ==
    /\ id \in Ids(bugInputs)
    /\ screenshots[id].present
    /\ screenshots' = [screenshots EXCEPT ![id] = NoFile]
    /\ UNCHANGED <<variant, now, bugInputs, companyLogo, readers,
                   generatedReports, isLoading, error, jiraConfig,
                   jiraIssueStatus, jiraTimers, cur, promiseAll, stale, issued,
                   cleared>>

\* ------------------------------------------------- the issue-tracker bridge
ConfigMissingStatus == [status |-> "error", message |-> "Jira config is missing."]
LoadingStatus == [status |-> "loading", message |-> ""]
ProxyRequiredStatus == [status |-> "error", message |-> "Backend proxy required"]

handleJiraConfigChange(name, value) ==
    /\ variant = 1
    /\ jiraConfig' = IF value = "" THEN jiraConfig \ {name} ELSE jiraConfig \cup {name}
    /\ UNCHANGED <<variant, now, bugInputs, screenshots, generatedReports,
                   isLoading, error, jiraIssueStatus, jiraTimers, cur,
                   promiseAll, stale, issued,
                   companyLogo, readers, cleared>>

\* Mutant of handleJiraCreate: the configuration counts as missing only when
\* all four fields are empty.
handleJiraCreateAnyField(i) ==
    /\ variant = 1
    /\ i \in 1..Len(generatedReports)
    /\ LET id == generatedReports[i].originalId
       IN  IF jiraConfig = {}
           THEN /\ jiraIssueStatus' = [jiraIssueStatus EXCEPT ![id] = ConfigMissingStatus]
                /\ UNCHANGED jiraTimers
           ELSE /\ Len(jiraTimers) < MaxTimers
                /\ jiraIssueStatus' = [jiraIssueStatus EXCEPT ![id] = LoadingStatus]
                /\ jiraTimers' = Append(jiraTimers, id)
    /\ UNCHANGED <<variant, now, bugInputs, screenshots, generatedReports,
                   isLoading, error, jiraConfig, cur, promiseAll, stale, issued,
                   companyLogo, readers, cleared>>

handleJiraCreate(i) ==
    /\ variant = 1
    /\ i \in 1..Len(generatedReports)
    /\ LET id == generatedReports[i].originalId
       IN  IF jiraConfig # JiraFields
           THEN /\ jiraIssueStatus' = [jiraIssueStatus EXCEPT ![id] = ConfigMissingStatus]
                /\ UNCHANGED jiraTimers
           ELSE /\ Len(jiraTimers) < MaxTimers
                /\ jiraIssueStatus' = [jiraIssueStatus EXCEPT ![id] = LoadingStatus]
                /\ jiraTimers' = Append(jiraTimers, id)
    /\ UNCHANGED <<variant, now, bugInputs, screenshots, generatedReports,
                   isLoading, error, jiraConfig, cur, promiseAll, stale, issued,
                   companyLogo, readers, cleared>>

\* Mutant of JiraTimeout: the callback shows the error and leaves the status.
JiraTimeoutBannerOnly ==
    /\ jiraTimers # <<>>
    /\ error' = JiraSimulatedMsg
    /\ jiraTimers' = Tail(jiraTimers)
    /\ UNCHANGED <<variant, now, bugInputs, screenshots, generatedReports,
                   isLoading, jiraConfig, jiraIssueStatus, cur, promiseAll,
                   stale, issued, companyLogo, readers, cleared>>

\* The setTimeout callback of handleJiraCreate; equal delays run in order.
JiraTimeout ==
    /\ jiraTimers # <<>>
    /\ error' = JiraSimulatedMsg
    /\ jiraIssueStatus' = [jiraIssueStatus EXCEPT ![Head(jiraTimers)] = ProxyRequiredStatus]
    /\ jiraTimers' = Tail(jiraTimers)
    /\ UNCHANGED <<variant, now, bugInputs, screenshots, generatedReports,
                   isLoading, jiraConfig, cur, promiseAll, stale, issued,
                   companyLogo, readers, cleared>>

\* A batch ready to submit: the entry of the mount and the entries added
\* after it, every field filled in.
RECURSIVE ReadyBatches(_)
ReadyBatches(n) ==
    IF n = 1 THEN {<<[NewEntry(1) EXCEPT !.title = "a"]>>}
    ELSE LET shorter == ReadyBatches(n - 1)
         IN  shorter \cup
             {Append(b, [NewEntry(id) EXCEPT !.title = "a"]) :
                 b \in {x \in shorter : Len(x) = n - 1},
                 id \in IdSpace}

Count(entries, id) == Cardinality({i \in 1..Len(entries) : entries[i].id = id})

InitBatch ==
    /\ variant \in {1, 2}
    /\ bugInputs \in {b \in ReadyBatches(MaxEntries) :
                        \A i \in 1..(Len(b) - 1) : b[i].id <= b[i + 1].id}
    /\ now = bugInputs[Len(bugInputs)].id
    /\ issued = [id \in IdSpace |-> IF Count(bugInputs, id) < 2
                                    THEN Count(bugInputs, id) ELSE 2]
    /\ screenshots = [id \in IdSpace |-> NoFile]
    /\ companyLogo = NoFile
    /\ readers = {}
    /\ cleared = FALSE
    /\ generatedReports = <<>>
    /\ isLoading = FALSE
    /\ error = Null
    /\ jiraConfig = {}
    /\ jiraIssueStatus = [id \in IdSpace |-> NoStatus]
    /\ jiraTimers = <<>>
    /\ cur = NoBatch
    /\ promiseAll = <<>>
    /\ stale = {}

\* ------------------------------------------- submission of a ready batch
\* handleSubmit and the settling of its calls, from a batch ready to submit.
NextBatch ==
    \/ handleSubmit
    \/ \E i \in 1..MaxEntries, resp \in Responses : ResponseArrives(i, resp)
    \/ \E c \in stale, resp \in Responses : LateResponseArrives(c, resp)
    \/ dismissError
    \/ handleClearAll

SpecBatch == InitBatch /\ [][NextBatch]_vars

\* What the calls answer where the tracker is concerned: the report's content
\* plays no part there.
JiraResponses ==
    {[kind |-> "text", text |-> FullText, message |-> ""],
     [kind |-> "error", text |-> MalformedText, message |-> "429 quota exceeded"]}

\* The tracker is exercised on the reports of small batches.
InitJira ==
    /\ InitBatch
    /\ Len(bugInputs) <= MaxJiraEntries

NextJira ==
    \/ handleSubmit
    \/ \E i \in 1..MaxEntries, resp \in JiraResponses : ResponseArrives(i, resp)
    \/ dismissError
    \/ \E name \in JiraFields, value \in {"", "x"} : handleJiraConfigChange(name, value)
    \/ \E i \in 1..MaxEntries : handleJiraCreate(i)
    \/ JiraTimeout

SpecJira == InitJira /\ [][NextJira]_vars

\* The tracker in revision 1 with three configuration fields typed in; the
\* project key is typed and erased while reports are sent to the tracker.
InitTracker ==
    /\ variant = 1
    /\ bugInputs \in {b \in ReadyBatches(MaxEntries) :
                        /\ Len(b) <= MaxJiraEntries
                        /\ \A i \in 1..(Len(b) - 1) : b[i].id <= b[i + 1].id}
    /\ now = bugInputs[Len(bugInputs)].id
    /\ issued = [id \in IdSpace |-> IF Count(bugInputs, id) < 2
                                    THEN Count(bugInputs, id) ELSE 2]
    /\ screenshots = [id \in IdSpace |-> NoFile]
    /\ companyLogo = NoFile
    /\ readers = {}
    /\ cleared = FALSE
    /\ generatedReports = <<>>
    /\ isLoading = FALSE
    /\ error = Null
    /\ jiraConfig = JiraFields \ {"projectKey"}
    /\ jiraIssueStatus = [id \in IdSpace |-> NoStatus]
    /\ jiraTimers = <<>>
    /\ cur = NoBatch
    /\ promiseAll = <<>>
    /\ stale = {}

NextTracker ==
    \/ handleSubmit
    \/ \E i \in 1..MaxEntries, resp \in JiraResponses : ResponseArrives(i, resp)
    \/ \E value \in {"", "x"} : handleJiraConfigChange("projectKey", value)
    \/ \E i \in 1..MaxEntries : handleJiraCreate(i)
    \/ JiraTimeout

\* The timers of handleJiraCreate run: setTimeout callbacks are not cancelled.
SpecJiraLive == InitTracker /\ [][NextTracker]_vars /\ WF_vars(JiraTimeout)

\* ------------------------------------------- attachments of a ready batch
NextFiles ==
    \/ \E id \in IdSpace, file \in ScreenshotFiles : handleFileChange(id, file)
    \/ \E file \in LogoFiles : handleLogoChange(file)
    \/ \E r \in readers : FileReaderLoadEnd(r)
    \/ \E r \in readers : FileReaderError(r)
    \/ \E id \in IdSpace : removeScreenshot(id)
    \/ \E id \in IdSpace : removeBugForm(id)

SpecFiles == InitBatch /\ [][NextFiles]_vars

\* ------------------------------- uploads around the submission of a batch
NextUpload ==
    \/ \E id \in IdSpace, file \in ScreenshotFiles : handleFileChange(id, file)
    \/ \E file \in LogoFiles : handleLogoChange(file)
    \/ \E r \in readers : FileReaderLoadEnd(r)
    \/ \E r \in readers : FileReaderError(r)
    \/ handleSubmit
    \/ \E i \in 1..MaxEntries, resp \in JiraResponses : ResponseArrives(i, resp)

SpecUpload == InitJira /\ [][NextUpload]_vars

\* ------------------------------------------ editing during a submission
\* The form is edited and attachments change while a batch is generated:
\* none of these controls is disabled by isLoading, except the add button of
\* revision 1.
AcceptedFiles == {file \in ScreenshotFiles : file.size <= ScreenshotLimit}

EditWhileLoading ==
    /\ isLoading
    /\ \/ Tick
       \/ addBugForm
       \/ \E id \in IdSpace : removeBugForm(id)
       \/ \E id \in IdSpace, value \in Titles : handleInputChange(id, value)
       \/ \E id \in IdSpace, file \in AcceptedFiles : handleFileChange(id, file)
       \/ \E r \in readers : FileReaderLoadEnd(r)
       \/ \E id \in IdSpace : removeScreenshot(id)

\* One submission is followed from its start to its outcome.
NextEdit ==
    \/ EditWhileLoading
    \/ promiseAll = <<>> /\ handleSubmit
    \/ \E i \in 1..MaxEntries, resp \in JiraResponses : ResponseArrives(i, resp)

SpecEdit == InitJira /\ [][NextEdit]_vars

\* ------------------------------------------ the request of each entry
\* The screenshots attached when the batch is submitted.
PromptFiles == {[size |-> ScreenshotLimit, type |-> "image/png"],
                [size |-> LogoLimit, type |-> "image/jpeg"]}

\* The entry of the mount with every combination of environment hints.
HintedEntries ==
    {[NewEntry(1) EXCEPT !.title = "a", !.browser = b, !.os = o, !.device = d] :
        b \in Hints, o \in Hints, d \in Hints}

\* A ready batch, or one entry with environment hints; any of its entries
\* may have a screenshot attached.
InitPrompt ==
    /\ variant \in {1, 2}
    /\ bugInputs \in {b \in ReadyBatches(MaxEntries) :
                        \A i \in 1..(Len(b) - 1) : b[i].id <= b[i + 1].id}
                     \cup {<<e>> : e \in HintedEntries}
    /\ now = bugInputs[Len(bugInputs)].id
    /\ issued = [id \in IdSpace |-> IF Count(bugInputs, id) < 2
                                    THEN Count(bugInputs, id) ELSE 2]
    /\ screenshots \in {f \in [IdSpace -> {NoFile} \cup {Screenshot(x) : x \in PromptFiles}] :
                          \A id \in IdSpace \ Ids(bugInputs) : f[id] = NoFile}
    /\ companyLogo = NoFile
    /\ readers = {}
    /\ cleared = FALSE
    /\ generatedReports = <<>>
    /\ isLoading = FALSE
    /\ error = Null
    /\ jiraConfig = {}
    /\ jiraIssueStatus = [id \in IdSpace |-> NoStatus]
    /\ jiraTimers = <<>>
    /\ cur = NoBatch
    /\ promiseAll = <<>>
    /\ stale = {}

NextPrompt ==
    \/ handleSubmit
    \/ \E i \in 1..MaxEntries, resp \in JiraResponses : ResponseArrives(i, resp)

SpecPrompt == InitPrompt /\ [][NextPrompt]_vars

\* ------------------------------------- a submission whose calls all settle
\* Some outstanding call of the latest submission settles.
SomeResponseArrives ==
    \E i \in 1..MaxEntries, resp \in JiraResponses : ResponseArrives(i, resp)

\* The files picked while a batch is generated: too big ones.
OversizedFiles == {file \in ScreenshotFiles : file.size > ScreenshotLimit}

NextLive ==
    \/ handleSubmit
    \/ SomeResponseArrives
    \/ \E c \in stale, resp \in JiraResponses : LateResponseArrives(c, resp)
    \/ \E id \in IdSpace, file \in OversizedFiles : handleFileChange(id, file)
    \/ dismissError

\* Every generation call eventually settles.
SpecLive == InitBatch /\ [][NextLive]_vars /\ WF_vars(SomeResponseArrives)

\* ------------------------------------------------------------ properties
\* The Promise.all of the latest submission.
Join == IF promiseAll = <<>> THEN "none" ELSE promiseAll[Len(promiseAll)]

AllFulfilled ==
    /\ cur.calls # <<>>
    /\ \A i \in 1..Len(cur.calls) : cur.calls[i].state = "fulfilled"

SomeRejected == \E i \in 1..Len(cur.calls) : cur.calls[i].state = "rejected"

\* The messages handleSubmit can publish.
GenerationErrors ==
    {InvalidFormatMsg, FallbackMsgV1, GenericMsgV2} \cup (UpstreamMessages \ {""})

\* C1: the step in which the last call of a batch of N >= 1 entries succeeds,
\* all the others having succeeded, publishes exactly N reports, the i-th with
\* the identifier of the i-th submitted entry, so that the published
\* identifiers are the submitted ones.
C1_AllSucceedPublishesAll ==
    [][(AllFulfilled' /\ ~AllFulfilled) =>
          /\ Len(generatedReports') = Len(cur'.inputs)
          /\ \A i \in 1..Len(cur'.inputs) :
                generatedReports'[i].originalId = cur'.inputs[i].id
          /\ {generatedReports'[i].originalId : i \in 1..Len(generatedReports')}
                = Ids(cur'.inputs)
          /\ ~isLoading']_vars

C1_Witness ==
    /\ AllFulfilled
    /\ Len(cur.inputs) = 2
    /\ Len(generatedReports) = 2
    /\ generatedReports[1].originalId # generatedReports[2].originalId

\* C2: once a call of the latest batch has failed the batch has failed: no
\* report is published and loading has ended, whatever the other calls did or
\* do, and the step of the first failure sets an error.
C2_OneFailureFailsBatch ==
    [][SomeRejected' =>
          /\ generatedReports' = <<>>
          /\ ~isLoading'
          /\ Join' = "rejected"
          /\ ~SomeRejected => error' \in GenerationErrors]_vars

C2_Witness ==
    /\ SomeRejected
    /\ \E i \in 1..Len(cur.calls) :
          cur.calls[i].state = "fulfilled" /\ cur.calls[i].order = 1
    /\ error \in GenerationErrors

\* C3: whenever reports are published, the i-th published report carries the
\* identifier of the i-th entry of the submitted batch, in whatever order the
\* calls completed.
C3_SubmissionOrder ==
    [][(generatedReports' # generatedReports /\ generatedReports' # <<>>) =>
          /\ DOMAIN generatedReports' = DOMAIN cur'.inputs
          /\ \A i \in DOMAIN generatedReports' :
                generatedReports'[i].originalId = cur'.inputs[i].id]_vars

\* The second call completed before the first and the identifiers differ.
C3_Witness ==
    /\ Len(generatedReports) = 2
    /\ Len(cur.calls) = 2
    /\ cur.calls[2].order < cur.calls[1].order
    /\ cur.inputs[1].id # cur.inputs[2].id

\* C4: every published report has every required field of reportSchema.
C4_NoPartialReport ==
    \A i \in 1..Len(generatedReports) :
        /\ generatedReports[i].fields = RequiredFields
        /\ generatedReports[i].env = EnvRequired

\* C5: a call whose response text is not JSON is rejected with the
\* invalid-response-format error and yields no report, and the submission it
\* belongs to has failed: no report is published.
C5_UnparseableRejects ==
    \A i \in 1..Len(cur.calls) :
        (cur.calls[i].resp.kind = "text" /\ ~cur.calls[i].resp.text.wellFormed) =>
            /\ cur.calls[i].state = "rejected"
            /\ cur.calls[i].message = InvalidFormatMsg
            /\ cur.calls[i].value = EmptyValue
            /\ Join = "rejected"
            /\ generatedReports = <<>>
            /\ ~isLoading

\* The unparseable response is the first failure of its batch, and revision 1
\* shows its message.
C5_Witness ==
    /\ variant = 1
    /\ error = InvalidFormatMsg
    /\ \E i \in 1..Len(cur.calls) :
          /\ cur.calls[i].resp.kind = "text"
          /\ ~cur.calls[i].resp.text.wellFormed
          /\ \A j \in 1..Len(cur.calls) :
                cur.calls[j].state = "rejected" => cur.calls[i].order <= cur.calls[j].order

\* C6: the identifiers of the entries of the batch are pairwise distinct and
\* no identifier is handed out twice in a session.
C6_IdentifiersUnique ==
    /\ Cardinality(Ids(bugInputs)) = Len(bugInputs)
    /\ \A id \in IdSpace : issued[id] <= 1

\* C7: the originalId of every published report is the identifier of exactly
\* one entry of the batch as submitted.
C7_ReportMatchesOneInput ==
    \A i \in 1..Len(generatedReports) :
        Count(cur.inputs, generatedReports[i].originalId) = 1

\* C8: the step that starts a submission leaves no report, no error and no
\* tracker status, with every call of the new batch still pending; and while
\* a batch is loading no report and no generation error is published.
C8_SubmitClearsAtOnce ==
    /\ [](isLoading => (generatedReports = <<>> /\ error \notin GenerationErrors))
    /\ [][Len(promiseAll') > Len(promiseAll) =>
            /\ generatedReports' = <<>>
            /\ error' = Null
            /\ \A id \in IdSpace : jiraIssueStatus'[id] = NoStatus
            /\ \A i \in 1..Len(cur'.calls) : cur'.calls[i].state = "pending"]_vars

\* A second submission is loading: the first one had published reports, and a
\* tracker submission for one of them was under way when it started.
C8_Witness ==
    /\ isLoading
    /\ Len(promiseAll) = 2
    /\ promiseAll[1] = "fulfilled"
    /\ jiraTimers # <<>>
    /\ \A id \in IdSpace : jiraIssueStatus[id] = NoStatus

\* C9 as claimed: when the Promise.all of the latest submission has settled,
\* with reports or with an error, none of its calls is outstanding.
C9_OutcomeAfterAllSettled ==
    \A n \in 1..Len(promiseAll) :
        promiseAll[n] \in {"fulfilled", "rejected"} =>
            ~\E c \in stale : c.batch = n

\* C9 amended: reports are published only when every call has been fulfilled;
\* a failure is published when a call has failed, other calls may be
\* outstanding then.
C9_OutcomeAfterJoin ==
    /\ Join = "fulfilled" => AllFulfilled \/ cur.inputs = <<>>
    /\ generatedReports # <<>> =>
          (AllFulfilled /\ ~\E c \in stale : c.batch = Len(promiseAll))
    /\ Join = "rejected" => SomeRejected
    /\ (promiseAll # <<>> /\ ~isLoading) => Join \in {"fulfilled", "rejected"}

C9_Witness ==
    /\ Join = "rejected"
    /\ \E c \in stale : c.batch = Len(promiseAll)
    /\ ~isLoading
    /\ error \in GenerationErrors

\* C10: while a call of the latest batch is outstanding and none has failed,
\* the batch is loading and publishes neither reports nor a generation error,
\* and a step ends the loading only by settling the last outstanding call or
\* by a call failing.
C10_NoTimeout ==
    /\ []((Outstanding # {} /\ ~SomeRejected) =>
            (isLoading /\ generatedReports = <<>> /\ error \notin GenerationErrors))
    /\ [][(isLoading /\ ~isLoading') => (Outstanding' = {} \/ SomeRejected')]_vars

\* One call has succeeded and the other is still outstanding.
C10_Witness ==
    /\ isLoading
    /\ Outstanding # {}
    /\ \E i \in 1..Len(cur.calls) : cur.calls[i].state = "fulfilled"

\* C11 as claimed: every call settling, a loading batch eventually stops
\* loading, and in the state it stops in either its N reports are published
\* or an error is set, not both and not neither.
C11_ExactlyOneOutcome ==
    /\ isLoading ~> ~isLoading
    /\ [][(isLoading /\ ~isLoading') =>
            \/ /\ Len(generatedReports') = Len(cur'.inputs)
               /\ generatedReports' # <<>>
               /\ error' = Null
            \/ /\ generatedReports' = <<>>
               /\ error' # Null]_vars

\* C11 amended: every call settling, a loading batch eventually stops
\* loading, and the step that ends the loading either publishes its N reports
\* and sets no error, or publishes no report and sets a generation error; an
\* error another handler set while the batch was loading stays as it is.
C11_SubmissionTerminates ==
    /\ isLoading ~> ~isLoading
    /\ [][(isLoading /\ ~isLoading') =>
            \/ /\ Len(generatedReports') = Len(cur'.inputs)
               /\ generatedReports' # <<>>
               /\ error' = error
               /\ error' \notin GenerationErrors
            \/ /\ generatedReports' = <<>>
               /\ error' \in GenerationErrors]_vars

\* A batch of two has ended with its two reports while the error of an
\* oversized upload made during the loading is shown.
C11_Witness ==
    /\ ~isLoading
    /\ Join = "fulfilled"
    /\ Len(generatedReports) = 2
    /\ error = FileTooBigMsg

\* The generateContent requests the latest submission has made.
RECURSIVE SumRequests(_)
SumRequests(calls) ==
    IF calls = <<>> THEN 0 ELSE Head(calls).requests + SumRequests(Tail(calls))

\* C12: a submission makes one generation call per entry of its batch and
\* every call one request, whether the call is outstanding, succeeded, failed
\* to parse or failed upstream: a batch of N entries makes N requests.
C12_OneRequestPerEntry ==
    /\ Len(cur.calls) = Len(cur.inputs)
    /\ \A i \in 1..Len(cur.calls) : cur.calls[i].requests = 1
    /\ SumRequests(cur.calls) = Len(cur.inputs)

\* A batch of two has failed: one call succeeded, then the other failed to
\* parse; two requests were made.
C12_Witness ==
    /\ Len(cur.calls) = 2
    /\ \E i, j \in 1..2 :
          /\ cur.calls[i].state = "fulfilled"
          /\ cur.calls[j].message = InvalidFormatMsg
    /\ ~isLoading
    /\ SumRequests(cur.calls) = 2

\* The submissions whose handleSubmit is still awaiting its Promise.all.
Running == {n \in 1..Len(promiseAll) : promiseAll[n] = "pending"}

\* C13: the submit action is disabled while loading, a submission starts only
\* when none is loading or running, at most one handleSubmit is running at any
\* time, and one is running exactly while isLoading is true.
C13_OneSubmissionAtATime ==
    /\ [](isLoading => submitDisabled)
    /\ [](Cardinality(Running) <= 1 /\ (isLoading <=> Running # {}))
    /\ [][Len(promiseAll') > Len(promiseAll) => (~isLoading /\ Running = {})]_vars

\* A second submission is loading while a call of the first one, which it
\* does not await, is still in flight.
C13_Witness ==
    /\ isLoading
    /\ Len(promiseAll) = 2
    /\ \E c \in stale : c.batch = 1

\* C14: a screenshot file of 4194304 bytes is accepted (its read starts, and
\* when it ends the file is the attachment of the entry) and one of 4194305
\* bytes is rejected with the size error; a logo file of 1048576 bytes is
\* accepted and one of 1048577 bytes is rejected; nothing bigger is ever read
\* or stored.
C14_SizeBoundary ==
    /\ [][/\ \A id \in IdSpace, file \in ScreenshotFiles :
               handleFileChange(id, file) =>
                   IF file.size <= 4194304
                   THEN [target |-> id, file |-> file] \in readers' /\ error' = Null
                   ELSE readers' = readers /\ error' = FileTooBigMsg
          /\ \A file \in LogoFiles :
               handleLogoChange(file) =>
                   IF file.size <= 1048576
                   THEN [target |-> LogoTarget, file |-> file] \in readers' /\ error' = Null
                   ELSE readers' = readers /\ error' = LogoTooBigMsg
          /\ \A r \in readers :
               FileReaderLoadEnd(r) =>
                   IF r.target = LogoTarget
                   THEN companyLogo'.present /\ companyLogo'.size = r.file.size
                   ELSE screenshots'[r.target].present
                        /\ screenshots'[r.target].size = r.file.size]_vars
    /\ [](/\ \A r \in readers :
                r.file.size <= (IF r.target = LogoTarget THEN 1048576 ELSE 4194304)
          /\ \A id \in IdSpace : screenshots[id].size <= 4194304
          /\ companyLogo.size <= 1048576)

\* A screenshot of exactly 4 MiB and a logo of exactly 1 MiB are attached,
\* and the last upload tried was a rejected one.
C14_Witness ==
    /\ \E id \in Ids(bugInputs) :
          screenshots[id].present /\ screenshots[id].size = 4194304
    /\ companyLogo.present
    /\ companyLogo.size = 1048576
    /\ error \in {FileTooBigMsg, LogoTooBigMsg}

\* C15: the step that rejects an oversized screenshot or logo leaves every
\* attachment, the logo, the batch inputs and the generated reports as they
\* were and starts no file read; it sets the size error only.
C15_RejectionLeavesState ==
    [][/\ \A id \in IdSpace, file \in ScreenshotFiles :
            (handleFileChange(id, file) /\ file.size > 4194304) =>
                /\ UNCHANGED <<screenshots, companyLogo, bugInputs,
                               generatedReports, readers>>
                /\ error' = FileTooBigMsg
       /\ \A file \in LogoFiles :
            (handleLogoChange(file) /\ file.size > 1048576) =>
                /\ UNCHANGED <<screenshots, companyLogo, bugInputs,
                               generatedReports, readers>>
                /\ error' = LogoTooBigMsg]_vars

\* The last upload was rejected; an attachment, the logo and published
\* reports were there before it and still are.
C15_Witness ==
    /\ error \in {FileTooBigMsg, LogoTooBigMsg}
    /\ \E id \in Ids(bugInputs) : screenshots[id].present
    /\ companyLogo.present
    /\ generatedReports # <<>>

\* C16: removeBugForm(id) leaves no entry with that identifier, keeps the
\* other entries in their order and, in the same step, discards the
\* attachment keyed by id; removeScreenshot(id) discards that attachment and
\* keeps the batch; both leave the attachments of all other identifiers as
\* they were.
C16_RemovalFrame ==
    [][/\ \A id \in IdSpace :
            removeBugForm(id) =>
                /\ id \notin Ids(bugInputs')
                /\ bugInputs' = SelectSeq(bugInputs, LAMBDA e : e.id # id)
                /\ ~screenshots'[id].present
                /\ \A o \in IdSpace \ {id} : screenshots'[o] = screenshots[o]
       /\ \A id \in IdSpace :
            removeScreenshot(id) =>
                /\ bugInputs' = bugInputs
                /\ ~screenshots'[id].present
                /\ \A o \in IdSpace \ {id} : screenshots'[o] = screenshots[o]]_vars

\* The entry of the mount was removed from a batch of two; the other entry
\* has kept its screenshot.
C16_Witness ==
    /\ Len(bugInputs) = 1
    /\ bugInputs[1].id # 1
    /\ screenshots[bugInputs[1].id].present
    /\ ~screenshots[1].present

\* C17: the batch always has at least one entry.
C17_BatchNeverEmpty == Len(bugInputs) >= 1

\* C18: from handleClearAll until the next submission starts no report is
\* published.
C18_ClearedMeansNoReports == cleared => generatedReports = <<>>

\* The text part of the contents of a request.
PromptOf(contents) == contents.parts[Len(contents.parts)].text

\* C19: the step that starts a submission gives the request of every entry
\* two parts when a screenshot is attached under the entry's identifier (the
\* image with the screenshot's MIME type and bytes first, the prompt second)
\* and the prompt alone otherwise, and the prompt has the image-analysis note
\* exactly in the first case.
C19_PayloadShape ==
    [][Len(promiseAll') > Len(promiseAll) =>
         /\ Len(cur'.calls) = Len(bugInputs)
         /\ \A i \in 1..Len(bugInputs) :
               LET c == cur'.calls[i].contents
                   shot == screenshots[bugInputs[i].id]
               IN  IF shot.present
                   THEN /\ c.form = "parts"
                        /\ Len(c.parts) = 2
                        /\ c.parts[1].kind = "inlineData"
                        /\ c.parts[1].mimeType = shot.mimeType
                        /\ c.parts[1].data = shot.size
                        /\ c.parts[2].kind = "text"
                        /\ c.parts[2].text.imageNote
                   ELSE /\ c.form = "string"
                        /\ Len(c.parts) = 1
                        /\ c.parts[1].kind = "text"
                        /\ ~c.parts[1].text.imageNote]_vars

\* A batch of two was submitted, the first entry without a screenshot and the
\* second with one.
C19_Witness ==
    /\ Len(cur.calls) = 2
    /\ cur.calls[1].contents.form = "string"
    /\ cur.calls[2].contents.form = "parts"
    /\ cur.calls[2].contents.parts[1].mimeType = "image/jpeg"

\* C20: the prompt of every request instructs full inference of browser, OS
\* and device when the entry supplies none of them; when it supplies at least
\* one, the prompt carries every supplied value as it is, marks the others as
\* not provided and asks to infer the missing ones.
C20_EnvironmentHint ==
    \A i \in 1..Len(cur.calls) :
        LET b == cur.inputs[i]
            h == PromptOf(cur.calls[i].contents).environmentHint
        IN  IF b.browser = "" /\ b.os = "" /\ b.device = ""
            THEN h.instruction = "infer all"
            ELSE /\ h.instruction = "use provided, infer missing"
                 /\ h.browser = (IF b.browser = "" THEN "Not provided" ELSE b.browser)
                 /\ h.os = (IF b.os = "" THEN "Not provided" ELSE b.os)
                 /\ h.device = (IF b.device = "" THEN "Not provided" ELSE b.device)

\* An entry supplying the browser only was submitted.
C20_Witness ==
    /\ Len(cur.calls) = 1
    /\ cur.inputs[1].browser = "Chrome"
    /\ cur.inputs[1].os = ""
    /\ cur.inputs[1].device = ""
    /\ PromptOf(cur.calls[1].contents).environmentHint.os = "Not provided"

\* The status shown for a report: no entry in jiraIssueStatus is idle.
StatusOf(st) == IF st.status = "absent" THEN "idle" ELSE st.status

\* The moves the tracker status of one report may make.
AllowedMoves ==
    {<<"idle", "loading">>, <<"loading", "success">>, <<"loading", "error">>,
     <<"error", "loading">>}

\* C21: the tracker status of a report moves only idle -> loading,
\* loading -> success, loading -> error, error -> loading, to error with the
\* configuration message when the configuration is missing, and to idle in
\* the step that starts a submission.
C21_StatusMoves ==
    [][\A id \in IdSpace :
          LET from == StatusOf(jiraIssueStatus[id])
              to == StatusOf(jiraIssueStatus'[id])
          IN  \/ from = to
              \/ <<from, to>> \in AllowedMoves
              \/ /\ jiraIssueStatus'[id] = ConfigMissingStatus
                 /\ jiraConfig # JiraFields
              \/ /\ to = "idle"
                 /\ Len(promiseAll') > Len(promiseAll)]_vars

\* C22: handleJiraCreate called while any of the four configuration fields
\* is empty sets the status of the report to error with the configuration
\* message, not to loading, starts no timer and leaves the other statuses.
C22_MissingConfigIsLocal ==
    [][\A i \in 1..MaxEntries :
          (handleJiraCreate(i) /\ \E f \in {"url", "email", "apiToken", "projectKey"} :
                                     f \notin jiraConfig) =>
              LET id == generatedReports[i].originalId
              IN  /\ jiraIssueStatus'[id].status = "error"
                  /\ jiraIssueStatus'[id].message = "Jira config is missing."
                  /\ jiraTimers' = jiraTimers
                  /\ \A o \in IdSpace \ {id} : jiraIssueStatus'[o] = jiraIssueStatus[o]]_vars

\* The tracker submission was tried with the project key missing: the status
\* is the configuration error and no timer runs.
C22_Witness ==
    /\ jiraConfig = {"url", "email", "apiToken"}
    /\ \E id \in IdSpace : jiraIssueStatus[id] = ConfigMissingStatus
    /\ jiraTimers = <<>>
    /\ generatedReports # <<>>

\* The identifiers the pending timers of handleJiraCreate will complete.
PendingCompletions == {jiraTimers[k] : k \in 1..Len(jiraTimers)}

\* C23: a tracker status that is loading eventually is success or error; a
\* loading status always has its completion pending; every invocation that
\* enters loading schedules exactly one completion and every completion runs
\* once, setting a terminal status for its report.
C23_OneOutcomePerInvocation ==
    /\ \A id \in IdSpace :
          (jiraIssueStatus[id].status = "loading")
              ~> (jiraIssueStatus[id].status \in {"success", "error"})
    /\ [](\A id \in IdSpace :
            jiraIssueStatus[id].status = "loading" => id \in PendingCompletions)
    /\ [][/\ \A id \in IdSpace :
                (jiraIssueStatus[id].status # "loading"
                 /\ jiraIssueStatus'[id].status = "loading") =>
                    jiraTimers' = Append(jiraTimers, id)
          /\ Len(jiraTimers') < Len(jiraTimers) =>
                /\ jiraTimers' = Tail(jiraTimers)
                /\ jiraIssueStatus'[Head(jiraTimers)].status \in {"success", "error"}
                /\ jiraIssueStatus'[Head(jiraTimers)].message # ""]_vars

\* The invocation for a published report has completed with its error.
C23_Witness ==
    /\ generatedReports # <<>>
    /\ jiraIssueStatus[generatedReports[1].originalId] = ProxyRequiredStatus
    /\ jiraTimers = <<>>
    /\ jiraConfig = JiraFields

\* C24: handleJiraCreate and its delayed completion leave the generated
\* reports, the batch inputs, the loading flag and the generation error as
\* they were.
C24_TrackerFrame ==
    [][((\E i \in 1..MaxEntries : handleJiraCreate(i)) \/ JiraTimeout) =>
          UNCHANGED <<generatedReports, bugInputs, isLoading, error>>]_vars

\* C25: the error published for a batch is never the upstream error's own
\* message.
C25_GenericMessage == error \notin (UpstreamMessages \ {""})

\* C26: every stored screenshot is keyed by the identifier of an entry of the
\* batch.
C26_ScreenshotsOwned ==
    \A id \in IdSpace : screenshots[id].present => id \in Ids(bugInputs)

\* C27: every identifier with a tracker status other than idle is the
\* originalId of a published report.
C27_StatusOfPublishedReport ==
    \A id \in IdSpace :
        jiraIssueStatus[id] # NoStatus =>
            \E i \in 1..Len(generatedReports) : generatedReports[i].originalId = id

\* C28: while isLoading is true no report is published; reports appear only
\* in a step that ends the loading with every call of the batch fulfilled, and
\* published reports are never seen together with loading.
C28_ReportsOnlyOnSuccess ==
    /\ [](generatedReports # <<>> => (~isLoading /\ Join = "fulfilled"))
    /\ [][(generatedReports' # <<>> /\ generatedReports' # generatedReports) =>
            /\ isLoading
            /\ generatedReports = <<>>
            /\ ~isLoading'
            /\ AllFulfilled'
            /\ Join' = "fulfilled"]_vars

\* The reports of a second submission are published; those of the first one
\* were withdrawn while the second was loading.
C28_Witness ==
    /\ ~isLoading
    /\ generatedReports # <<>>
    /\ Len(promiseAll) = 2
    /\ promiseAll[1] = "fulfilled"
    /\ promiseAll[2] = "fulfilled"

\* C29: a step in which a call of a failed batch settles late (it leaves the
\* calls in flight that nobody awaits) changes neither the published reports,
\* nor the error, nor the loading flag, nor the state of any submission and of
\* the calls of the latest one.
C29_LateResultsIgnored ==
    [][(stale' # stale /\ stale' \subseteq stale) =>
          UNCHANGED <<generatedReports, error, isLoading, promiseAll, cur>>]_vars

\* A call of the failed batch has settled after the failure: the batch holds
\* it as it was when the batch failed, and it is no longer in flight.
C29_Witness ==
    /\ Join = "rejected"
    /\ ~isLoading
    /\ stale = {}
    /\ \E i \in 1..Len(cur.calls) : cur.calls[i].state = "pending"

\* C30: a submission sends the entries and attachments of the form as they
\* are when it starts; no later step changes the submitted entries or the
\* requests of its calls until the next submission; the reports published are
\* as many as the submitted entries and carry their identifiers in order,
\* whatever the form holds by then.
C30_SubmittedBatchDecides ==
    [][/\ Len(promiseAll') > Len(promiseAll) =>
             /\ cur'.inputs = bugInputs
             /\ \A i \in 1..Len(bugInputs) :
                   cur'.calls[i].contents =
                       Contents(bugInputs[i], screenshots[bugInputs[i].id])
       /\ Len(promiseAll') = Len(promiseAll) =>
             /\ cur'.inputs = cur.inputs
             /\ Len(cur'.calls) = Len(cur.calls)
             /\ \A i \in 1..Len(cur.calls) :
                   cur'.calls[i].contents = cur.calls[i].contents
       /\ (generatedReports' # generatedReports /\ generatedReports' # <<>>) =>
             /\ Len(generatedReports') = Len(cur.inputs)
             /\ \A i \in 1..Len(cur.inputs) :
                   generatedReports'[i].originalId = cur.inputs[i].id]_vars

\* While the batch is loading the form has lost an entry and gained an
\* attachment that the request of its entry does not carry.
C30_Witness ==
    /\ isLoading
    /\ Len(bugInputs) # Len(cur.inputs)
    /\ \E i \in 1..Len(cur.inputs) :
          /\ screenshots[cur.inputs[i].id].present
          /\ cur.calls[i].contents.form = "string"

====
